---- MODULE Spec2Model ----
(***************************************************************************)
(* Solar-yield pipeline of the Next.js application:                        *)
(*   - getLatitudeLongitude / getSolarData / handleSubmit of the two       *)
(*     client components (SolarData.tsx, PostcodeSolarData.tsx),           *)
(*   - the POST handler of the /api/NREL route (app/api/NREL/route.ts).    *)
(*                                                                         *)
(* Numbers.  A JavaScript number is modelled as an exact extended rational *)
(* [num, den] in lowest terms with den >= 0:  den = 0 encodes the three    *)
(* non-finite values (0/0 = NaN, 1/0 = Infinity, -1/0 = -Infinity).        *)
(* Rounding of IEEE doubles and the sign of zero are not modelled.         *)
(*                                                                         *)
(* Strings are sequences of one-character strings, so that parseFloat is   *)
(* computed on the characters.                                             *)
(***************************************************************************)
EXTENDS Integers, Sequences, FiniteSets, TLC

VARIABLES
    component,      \* which client component is mounted
    apiKey,         \* process.env.NREL_API is set (server side)
    solarData,      \* useState: the stored result
    loading,        \* useState
    error,          \* useState
    zipcode,        \* useState (form field)
    countryCode,    \* useState (form field)
    solarCapacity,  \* useState (form field)
    hasFetched,     \* useState: the mount effect has run
    calls,          \* the invocations of getSolarData, in order of start
    rejected,       \* some promise returned by getSolarData rejected
    lastCause,      \* what failed in the invocation that ended last
    probe           \* one invocation of a function on one input

vars == <<component, apiKey, solarData, loading, error, zipcode, countryCode,
          solarCapacity, hasFetched, calls, rejected, lastCause, probe>>

ui == <<component, apiKey, solarData, loading, error, zipcode, countryCode,
        solarCapacity, hasFetched, calls, rejected, lastCause>>

(***************************************************************************)
(* Bounds                                                                  *)
(***************************************************************************)
MaxStrLen == 2      \* generated coordinate strings have at most this length
MaxResults == 2     \* entries in the geocoder's result list
MaxCalls == 2       \* invocations of getSolarData in one component instance

(***************************************************************************)
(* JavaScript numbers as extended rationals                                *)
(***************************************************************************)
Abs(n) == IF n < 0 THEN -n ELSE n

Sign(n) == IF n < 0 THEN -1 ELSE IF n > 0 THEN 1 ELSE 0

RECURSIVE Gcd(_, _)
Gcd(a, b) == IF b = 0 THEN a ELSE Gcd(b, a % b)

Norm(n, d) ==
    IF d = 0 THEN [num |-> Sign(n), den |-> 0]
    ELSE LET g == Gcd(Abs(n), Abs(d))
         IN  [num |-> (Sign(d) * n) \div g, den |-> Abs(d) \div g]

Int2Num(n) == [num |-> n, den |-> 1]

NaN == [num |-> 0, den |-> 0]

Infinity == [num |-> 1, den |-> 0]

NegInfinity == [num |-> -1, den |-> 0]

isNaN(x) == x.den = 0 /\ x.num = 0

isFinite(x) == x.den # 0

Mul(a, b) == Norm(a.num * b.num, a.den * b.den)

Div(a, b) == Norm(a.num * b.den, a.den * b.num)

Add(a, b) ==
    IF a.den = 0 /\ b.den = 0
    THEN (IF a.num = b.num THEN a ELSE NaN)
    ELSE Norm(a.num * b.den + b.num * a.den, a.den * b.den)

Leq(a, b) == isFinite(a) /\ isFinite(b) /\ a.num * b.den <= b.num * a.den

(***************************************************************************)
(* Strings and parseFloat                                                  *)
(***************************************************************************)
Digits == {"0", "1", "2", "3", "4", "5", "6", "7", "8", "9"}

DigitVal(c) ==
    CASE c = "0" -> 0 [] c = "1" -> 1 [] c = "2" -> 2 [] c = "3" -> 3
      [] c = "4" -> 4 [] c = "5" -> 5 [] c = "6" -> 6 [] c = "7" -> 7
      [] c = "8" -> 8 [] c = "9" -> 9

Rest(s, k) == SubSeq(s, k + 1, Len(s))

IsPrefix(p, s) == Len(p) <= Len(s) /\ SubSeq(s, 1, Len(p)) = p

RECURSIVE TrimStart(_)
TrimStart(s) == IF s # <<>> /\ Head(s) = " " THEN TrimStart(Tail(s)) ELSE s

RECURSIVE DigitRun(_)
DigitRun(s) == IF s # <<>> /\ Head(s) \in Digits THEN 1 + DigitRun(Tail(s)) ELSE 0

RECURSIVE DigitsVal(_, _)
DigitsVal(s, acc) ==
    IF s = <<>> THEN acc ELSE DigitsVal(Tail(s), 10 * acc + DigitVal(Head(s)))

RECURSIVE Pow10(_)
Pow10(k) == IF k = 0 THEN 1 ELSE 10 * Pow10(k - 1)

InfinityWord == <<"I", "n", "f", "i", "n", "i", "t", "y">>

\* The unsigned part: "Infinity", or digits [. digits], or . digits; the
\* longest such prefix is taken and whatever follows is ignored.
ParseUnsigned(s) ==
    IF IsPrefix(InfinityWord, s) THEN Infinity
    ELSE LET ni   == DigitRun(s)
             r1   == Rest(s, ni)
             dot  == r1 # <<>> /\ Head(r1) = "."
             nf   == IF dot THEN DigitRun(Tail(r1)) ELSE 0
             ip   == DigitsVal(SubSeq(s, 1, ni), 0)
             fp   == IF dot THEN DigitsVal(SubSeq(Tail(r1), 1, nf), 0) ELSE 0
         IN  IF ni = 0 /\ nf = 0 THEN NaN
             ELSE Norm(ip * Pow10(nf) + fp, Pow10(nf))

parseFloat(str) ==
    LET s   == TrimStart(str)
        neg == s # <<>> /\ Head(s) = "-"
        pos == s # <<>> /\ Head(s) = "+"
        u   == ParseUnsigned(IF neg \/ pos THEN Tail(s) ELSE s)
    IN  IF neg THEN Mul(Int2Num(-1), u) ELSE u

(***************************************************************************)
(* The geocoder's answer to one lookup request                             *)
(***************************************************************************)
CoordChars == {"9", "1", "-", ".", " ", "x"}

RECURSIVE StringsUpTo(_)
StringsUpTo(n) ==
    IF n = 0 THEN {<<>>}
    ELSE LET S == StringsUpTo(n - 1)
         IN  S \cup {Append(s, c) : s \in {t \in S : Len(t) = n - 1}, c \in CoordChars}

LiteralStrings ==
    { InfinityWord,
      <<"-">> \o InfinityWord,
      <<"1", "8", ".", "9", "4">>,
      <<"-", "7", "2", ".", "8", "3">>,
      <<"1", "8", "1">>,
      <<"-", "9", "1">>,
      <<"1", "2", "a", "b", "c">> }

CoordStrings(n) == StringsUpTo(n) \cup LiteralStrings

\* An entry of data.result; isNull: the entry is the JSON value null.
NullEntry == [isNull |-> TRUE, latitude |-> <<>>, longitude |-> <<>>]

FirstEntries(n) ==
    {[isNull |-> FALSE, latitude |-> a, longitude |-> b] :
        a \in CoordStrings(n), b \in CoordStrings(n)} \cup {NullEntry}

OtherEntries ==
    { [isNull |-> FALSE, latitude |-> <<"1">>, longitude |-> <<"9">>],
      [isNull |-> FALSE, latitude |-> <<"x">>, longitude |-> <<>>] }

RECURSIVE EntryLists(_)
EntryLists(n) ==
    IF n = 0 THEN {<<>>}
    ELSE LET S == EntryLists(n - 1)
         IN  S \cup {Append(s, e) : s \in {t \in S : Len(t) = n - 1}, e \in OtherEntries}

ResultLists(firsts, n) ==
    {<<>>} \cup {<<e>> \o t : e \in firsts, t \in EntryLists(n - 1)}

\* transport: fetch resolved or rejected; ok: response.ok; body: what
\* response.json() gives ("unparsable": it rejects; "null": the JSON null;
\* "object": an object, with or without a `result` member).
GeoResponse(transport, ok, body, hasResult, result) ==
    [transport |-> transport, ok |-> ok, body |-> body,
     hasResult |-> hasResult, result |-> result]

GeoResponsesOver(firsts, n) ==
    { GeoResponse("fail", FALSE, "unparsable", FALSE, <<>>),
      GeoResponse("ok", FALSE, "object", FALSE, <<>>),
      GeoResponse("ok", FALSE, "unparsable", FALSE, <<>>),
      GeoResponse("ok", TRUE, "unparsable", FALSE, <<>>),
      GeoResponse("ok", TRUE, "null", FALSE, <<>>),
      GeoResponse("ok", TRUE, "object", FALSE, <<>>) }
    \cup {GeoResponse("ok", TRUE, "object", TRUE, r) : r \in ResultLists(firsts, n)}
    \cup {GeoResponse("ok", FALSE, "object", TRUE, <<e>>) : e \in OtherEntries}

(***************************************************************************)
(* getLatitudeLongitude                                                    *)
(***************************************************************************)
NoCoords == [isNull |-> TRUE, lat |-> NaN, long |-> NaN]

Coords(lat, long) == [isNull |-> FALSE, lat |-> lat, long |-> long]

Return(v) == [exc |-> FALSE, ret |-> v]

Throw == [exc |-> TRUE, ret |-> NoCoords]

\* The statements of the try block, in order.
ResolveTry(resp) ==
    IF resp.transport = "fail" THEN Throw
    ELSE IF ~resp.ok THEN Return(NoCoords)
    ELSE IF resp.body = "unparsable" THEN Throw
    ELSE IF resp.body = "null" THEN Throw
    ELSE IF ~resp.hasResult \/ Len(resp.result) = 0 THEN Return(NoCoords)
    ELSE IF resp.result[1].isNull THEN Throw
    ELSE LET lat  == parseFloat(resp.result[1].latitude)
             long == parseFloat(resp.result[1].longitude)
         IN  IF isNaN(lat) \/ isNaN(long) THEN Return(NoCoords)
             ELSE Return(Coords(lat, long))

\* try { ... } catch { return null }
getLatitudeLongitude(resp) ==
    LET r == ResolveTry(resp) IN IF r.exc THEN Return(NoCoords) ELSE r

(***************************************************************************)
(* Component state right after construction (useState initial values)      *)
(***************************************************************************)
NoData == [isNull |-> TRUE]

Str400001 == <<"4", "0", "0", "0", "0", "1">>

StrIN == <<"I", "N">>

Str1000 == <<"1", "0", "0", "0">>

Components == {"SolarData", "PostcodeSolarData"}

EmptyData(c) == IF c = "SolarData" THEN NoData ELSE [isNull |-> FALSE, daily |-> <<>>]

InitUi(c, key) ==
    /\ component = c
    /\ apiKey = key
    /\ solarData = EmptyData(c)
    /\ loading = FALSE
    /\ error = ""
    /\ zipcode = Str400001
    /\ countryCode = StrIN
    /\ solarCapacity = Str1000
    /\ hasFetched = FALSE
    /\ calls = <<>>
    /\ rejected = FALSE
    /\ lastCause = "none"

NoProbe == [op |-> "none"]

(***************************************************************************)
(* One invocation of getLatitudeLongitude on one geocoder answer           *)
(***************************************************************************)
InitResolve ==
    /\ InitUi("SolarData", TRUE)
    /\ \E r \in GeoResponsesOver(FirstEntries(MaxStrLen), MaxResults) :
          probe = [op |-> "resolve", resp |-> r, done |-> FALSE,
                   exc |-> FALSE, ret |-> NoCoords]

ProbeResolve ==
    /\ probe.op = "resolve"
    /\ ~probe.done
    /\ LET r == getLatitudeLongitude(probe.resp)
       IN  probe' = [probe EXCEPT !.done = TRUE, !.exc = r.exc, !.ret = r.ret]
    /\ UNCHANGED ui

NextResolve == ProbeResolve

SpecResolve == InitResolve /\ [][NextResolve]_vars

(***************************************************************************)
(* The body of the proxy's answer, as response.json() gives it             *)
(***************************************************************************)
\* A member of a JSON object is present (def) or absent (undefined).
Def(v) == [def |-> TRUE, v |-> v]

Undefined == [def |-> FALSE]

ScaleDivisor == 1000

HoursPerDay == 24

DaysPerYear == 365

MonthsPerYear == 12

HoursPerYear == DaysPerYear * HoursPerDay

Map(f(_), s) == [i \in 1..Len(s) |-> f(s[i])]

Min(a, b) == IF a < b THEN a ELSE b

\* Array.prototype.slice(start, end) for 0 <= start <= end (0-based, end
\* exclusive, clamped to the array).
Slice(s, start, end) == SubSeq(s, start + 1, Min(end, Len(s)))

\* Array.prototype.reduce((sum, val) => sum + val, init)
RECURSIVE ReduceSum(_, _)
ReduceSum(s, acc) == IF s = <<>> THEN acc ELSE ReduceSum(Tail(s), Add(acc, Head(s)))

Outputs(ac, acm, poam, solm, dcm, aca, sola, cf) ==
    [ac |-> ac, ac_monthly |-> acm, poa_monthly |-> poam, solrad_monthly |-> solm,
     dc_monthly |-> dcm, ac_annual |-> aca, solrad_annual |-> sola,
     capacity_factor |-> cf]

\* body: "unparsable" (response.json() rejects), "null" or "object".
Payload(body, outputs) == [body |-> body, outputs |-> outputs]

Thrown == [exc |-> TRUE, ret |-> NoData]

(***************************************************************************)
(* SolarData.tsx: scale factor and combined data                           *)
(***************************************************************************)
\* Variant: the capacity is divided by 100 instead of 1000.
ScaleFactor_Percent(solarcapacity) == Div(solarcapacity, Int2Num(100))

ScaleFactor(solarcapacity) == Div(solarcapacity, Int2Num(ScaleDivisor))

Hourly(ac, scaleFactor) ==
    [i \in 1..Len(ac) |-> [hour |-> i - 1, power |-> Mul(ac[i], scaleFactor)]]

\* Variant: the solar-radiation series is scaled like the power series.
Monthly_SolradScaled(o, scaleFactor) ==
    LET Scale(val) == Mul(val, scaleFactor)
    IN  [ac_monthly |-> Map(Scale, o.ac_monthly.v),
         poa_monthly |-> Map(Scale, o.poa_monthly.v),
         solrad_monthly |-> IF o.solrad_monthly.def
                            THEN Def(Map(Scale, o.solrad_monthly.v)) ELSE Undefined,
         dc_monthly |-> Map(Scale, o.dc_monthly.v)]

Monthly(o, scaleFactor) ==
    LET Scale(val) == Mul(val, scaleFactor)
    IN  [ac_monthly |-> Map(Scale, o.ac_monthly.v),
         poa_monthly |-> Map(Scale, o.poa_monthly.v),
         solrad_monthly |-> o.solrad_monthly,
         dc_monthly |-> Map(Scale, o.dc_monthly.v)]

\* undefined * scaleFactor is NaN.
Annual(o, scaleFactor) ==
    [ac_annual |-> IF o.ac_annual.def THEN Mul(o.ac_annual.v, scaleFactor) ELSE NaN,
     solrad_annual |-> o.solrad_annual,
     capacity_factor |-> o.capacity_factor]

\* Reading a member of null or undefined, or calling .map of undefined,
\* throws a TypeError.
CombinedData(data, solarcapacity) ==
    IF data.body = "null" \/ ~data.outputs.def THEN Thrown
    ELSE LET o == data.outputs.v
             scaleFactor == ScaleFactor(solarcapacity)
         IN  IF ~o.ac.def \/ ~o.ac_monthly.def \/ ~o.poa_monthly.def
                \/ ~o.dc_monthly.def
             THEN Thrown
             ELSE Return([isNull |-> FALSE,
                          hourly |-> Hourly(o.ac.v, scaleFactor),
                          monthly |-> Monthly(o, scaleFactor),
                          annual |-> Annual(o, scaleFactor)])

(***************************************************************************)
(* PostcodeSolarData.tsx: scaled hourly series and daily averages          *)
(***************************************************************************)
AcPower(ac, solarcapacity) ==
    LET Scale(power) == Div(Mul(power, solarcapacity), Int2Num(ScaleDivisor))
    IN  Map(Scale, ac)

\* Variant: the sum of a window is always divided by 24.
DayEntry_FixedDivisor(acPower, day) ==
    LET start    == day * HoursPerDay
        end      == start + HoursPerDay
        dayPower == Slice(acPower, start, end)
        avgPower == Div(ReduceSum(dayPower, Int2Num(0)), Int2Num(HoursPerDay))
    IN  [day |-> day + 1, avgPower |-> avgPower]

\* Variant: every window starts one hour late.
DayEntry_OffByOne(acPower, day) ==
    LET start    == day * HoursPerDay + 1
        end      == start + HoursPerDay
        dayPower == Slice(acPower, start, end)
        avgPower == Div(ReduceSum(dayPower, Int2Num(0)), Int2Num(Len(dayPower)))
    IN  [day |-> day + 1, avgPower |-> avgPower]

DayEntry(acPower, day) ==
    LET start    == day * HoursPerDay
        end      == start + HoursPerDay
        dayPower == Slice(acPower, start, end)
        avgPower == Div(ReduceSum(dayPower, Int2Num(0)), Int2Num(Len(dayPower)))
    IN  [day |-> day + 1, avgPower |-> avgPower]

\* Variant: one entry per started 24-hour window of the input.
DailyLoop_ByLength(acPower) ==
    [d \in 1..((Len(acPower) + HoursPerDay - 1) \div HoursPerDay) |->
        DayEntry(acPower, d - 1)]

\* for (let day = 0; day < 365; day++) { ...; dailyData.push(...) }
DailyLoop(acPower) == [d \in 1..DaysPerYear |-> DayEntry(acPower, d - 1)]

DailyData(data, solarcapacity) ==
    IF data.body = "null" \/ ~data.outputs.def THEN Thrown
    ELSE LET o == data.outputs.v
         IN  IF ~o.ac.def THEN Thrown
             ELSE Return([isNull |-> FALSE,
                          daily |-> DailyLoop(AcPower(o.ac.v, solarcapacity))])

\* The statements of getSolarData between `await response.json()` and
\* setSolarData, for the mounted component.
Transform(c, data, solarcapacity) ==
    IF data.body = "unparsable" THEN Thrown
    ELSE IF c = "SolarData" THEN CombinedData(data, solarcapacity)
    ELSE DailyData(data, solarcapacity)

(***************************************************************************)
(* Upstream payloads                                                       *)
(***************************************************************************)
MaxTail == 1        \* series are up to MaxTail values long, or one day long,
                    \* or a year long give or take MaxTail values

SeriesShapes == {"const2", "ramp"}

\* "ramp": 0, 1, ..., 24, 0, 1, ... over the year and 7 after its end.
SeriesValue(shape, i) ==
    CASE shape = "const2" -> Int2Num(2)
      [] shape = "ramp"   -> IF i >= HoursPerYear THEN Int2Num(7)
                             ELSE Int2Num(i % (HoursPerDay + 1))

\* Index i (0-based) holds SeriesValue(shape, i).
Series(shape, len) == [i \in 1..len |-> SeriesValue(shape, i - 1)]

SeriesLengths ==
    (0..MaxTail) \cup {HoursPerDay, HoursPerYear - MaxTail, HoursPerYear,
                       HoursPerYear + MaxTail}

MonthSeries(k) == [m \in 1..MonthsPerYear |-> Norm(m * k, 2)]

FullOutputs(ac) ==
    Outputs(Def(ac), Def(MonthSeries(3)), Def(MonthSeries(5)), Def(MonthSeries(7)),
            Def(MonthSeries(4)), Def(Int2Num(1500)), Def(Norm(11, 2)),
            Def(Norm(171, 10)))

YieldPayloads(lengths) ==
    {Payload("object", Def(FullOutputs(Series(sh, n)))) :
        sh \in SeriesShapes, n \in lengths}

CapacityStrings ==
    { Str1000, <<"1">>, <<"5", "0", "0", "0">>, <<"0">>, <<"-", "3">> }

(***************************************************************************)
(* One application of the transformer to one payload and one capacity      *)
(***************************************************************************)
InitYield ==
    /\ \E c \in Components : InitUi(c, TRUE)
    /\ \E p \in YieldPayloads(SeriesLengths), cs \in CapacityStrings :
          probe = [op |-> "yield", data |-> p, solarcapacity |-> parseFloat(cs),
                   done |-> FALSE, exc |-> FALSE, ret |-> NoData]

ProbeYield ==
    /\ probe.op = "yield"
    /\ ~probe.done
    /\ LET r == Transform(component, probe.data, probe.solarcapacity)
       IN  probe' = [probe EXCEPT !.done = TRUE, !.exc = r.exc, !.ret = r.ret]
    /\ UNCHANGED ui

NextYield == ProbeYield

SpecYield == InitYield /\ [][NextYield]_vars

(***************************************************************************)
(* The /api/NREL route handler                                             *)
(***************************************************************************)
\* JSON.stringify of a number: a non-finite number is written as null.
JsonNumber(x) == IF isFinite(x) THEN [isNull |-> FALSE, v |-> x]
                 ELSE [isNull |-> TRUE, v |-> NaN]

\* The request body the client sends: JSON.stringify({ lat, long }).
RequestBody(coords) ==
    [body |-> "object", lat |-> JsonNumber(coords.lat), long |-> JsonNumber(coords.long)]

\* What the upstream simulation service does with one forwarded request.
Upstream(transport, ok, data) == [transport |-> transport, ok |-> ok, data |-> data]

MsgKeyMissing == "NREL API key is missing in environment variables"

MsgUpstreamFailed == "Failed to fetch data from NREL API"

MsgUnknown == "Unknown error"

\* A thrown value: an Error instance with a message, or something else.
Raise(isError, message, fetches) ==
    [exc |-> TRUE, isError |-> isError, message |-> message, fetches |-> fetches,
     data |-> Payload("null", Undefined)]

Relay(data) ==
    [exc |-> FALSE, isError |-> FALSE, message |-> "", fetches |-> 1, data |-> data]

\* Variant: the credential is not checked before the upstream request.
PostTry_NoKeyCheck(req, key, upstream) ==
    IF req.body = "unparsable" THEN Raise(TRUE, "Unexpected token", 0)
    ELSE IF req.body = "null" THEN Raise(TRUE, "Cannot destructure", 0)
    ELSE IF upstream.transport = "fail" THEN Raise(TRUE, "fetch failed", 1)
    ELSE IF ~upstream.ok THEN Raise(TRUE, MsgUpstreamFailed, 1)
    ELSE IF upstream.data.body = "unparsable" THEN Raise(TRUE, "Unexpected token", 1)
    ELSE Relay(upstream.data)

\* The statements of the try block of POST, in order.  fetches counts the
\* requests sent upstream.
PostTry(req, key, upstream) ==
    IF req.body = "unparsable" THEN Raise(TRUE, "Unexpected token", 0)
    ELSE IF req.body = "null" THEN Raise(TRUE, "Cannot destructure", 0)
    ELSE IF ~key THEN Raise(TRUE, MsgKeyMissing, 0)
    ELSE IF upstream.transport = "fail" THEN Raise(TRUE, "fetch failed", 1)
    ELSE IF ~upstream.ok THEN Raise(TRUE, MsgUpstreamFailed, 1)
    ELSE IF upstream.data.body = "unparsable" THEN Raise(TRUE, "Unexpected token", 1)
    ELSE Relay(upstream.data)

\* try { ... } catch (error) { return NextResponse.json({ error: err }, { status: 500 }) }
POST(req, key, upstream) ==
    LET r == PostTry(req, key, upstream)
    IN  IF r.exc
        THEN [escaped |-> FALSE, status |-> 500, kind |-> "error",
              error |-> IF r.isError THEN r.message ELSE MsgUnknown,
              data |-> Payload("null", Undefined), fetches |-> r.fetches]
        ELSE [escaped |-> FALSE, status |-> 200, kind |-> "relay", error |-> "",
              data |-> r.data, fetches |-> r.fetches]

ResponseOk(status) == status >= 200 /\ status <= 299

(***************************************************************************)
(* One request answered by the route handler                               *)
(***************************************************************************)
ProbeCoords ==
    { Coords(parseFloat(<<"1", "8", ".", "9", "4">>), parseFloat(<<"-", "7", "2", ".", "8", "3">>)),
      Coords(Infinity, Int2Num(1)),
      Coords(Int2Num(181), NegInfinity),
      Coords(Int2Num(0), Int2Num(0)) }

ProxyRequests ==
    { [body |-> "unparsable", lat |-> JsonNumber(NaN), long |-> JsonNumber(NaN)],
      [body |-> "null", lat |-> JsonNumber(NaN), long |-> JsonNumber(NaN)] }
    \cup {RequestBody(c) : c \in ProbeCoords}

MaxSeriesLen == 2   \* length of the hourly series in the small payloads

SmallOutputs(n) == {FullOutputs(Series(sh, k)) : sh \in SeriesShapes, k \in 0..n}

Without(o, field) == [o EXCEPT ![field] = Undefined]

SmallPayloads ==
    { Payload("unparsable", Undefined), Payload("null", Undefined),
      Payload("object", Undefined) }
    \cup {Payload("object", Def(o)) : o \in SmallOutputs(MaxSeriesLen)}
    \cup {Payload("object", Def(Without(FullOutputs(Series("ramp", 1)), f))) :
            f \in {"ac", "ac_monthly", "solrad_monthly", "solrad_annual", "ac_annual"}}

Upstreams ==
    { Upstream("fail", FALSE, Payload("unparsable", Undefined)),
      Upstream("ok", FALSE, Payload("unparsable", Undefined)),
      Upstream("ok", FALSE, Payload("object", Undefined)) }
    \cup {Upstream("ok", TRUE, p) : p \in SmallPayloads}

InitProxy ==
    /\ \E key \in BOOLEAN : InitUi("SolarData", key)
    /\ \E req \in ProxyRequests, up \in Upstreams :
          probe = [op |-> "post", req |-> req, upstream |-> up, done |-> FALSE,
                   res |-> POST(req, FALSE, Upstream("fail", FALSE, Payload("null", Undefined)))]

ProbePost ==
    /\ probe.op = "post"
    /\ ~probe.done
    /\ probe' = [probe EXCEPT !.done = TRUE,
                              !.res = POST(probe.req, apiKey, probe.upstream)]
    /\ UNCHANGED ui

NextProxy == ProbePost

SpecProxy == InitProxy /\ [][NextProxy]_vars

(***************************************************************************)
(* The mounted component: getSolarData, the mount effect, the form         *)
(***************************************************************************)
MsgGeneric == "Data cannot be fetched for this postcode"

MsgFillIn == "Please fill in all fields"

\* What the geocoder may answer in a run of the component.
PipelineEntries ==
    { [isNull |-> FALSE, latitude |-> <<"1", "8", ".", "9", "4">>,
                         longitude |-> <<"-", "7", "2", ".", "8", "3">>],
      [isNull |-> FALSE, latitude |-> <<"x">>, longitude |-> <<"1">>],
      NullEntry }

PipelineGeoResponses ==
    { GeoResponse("fail", FALSE, "unparsable", FALSE, <<>>),
      GeoResponse("ok", FALSE, "object", FALSE, <<>>),
      GeoResponse("ok", TRUE, "unparsable", FALSE, <<>>),
      GeoResponse("ok", TRUE, "object", FALSE, <<>>),
      GeoResponse("ok", TRUE, "object", TRUE, <<>>) }
    \cup {GeoResponse("ok", TRUE, "object", TRUE, <<e>>) : e \in PipelineEntries}

\* What the upstream service may answer in a run of the component.
PipelinePayloads ==
    { Payload("unparsable", Undefined), Payload("null", Undefined),
      Payload("object", Undefined),
      Payload("object", Def(FullOutputs(Series("ramp", MaxSeriesLen)))) }
    \cup {Payload("object", Def(Without(FullOutputs(Series("ramp", MaxSeriesLen)), f))) :
            f \in {"ac", "ac_monthly"}}

\* The request never reaches the upstream service.
NoUpstream == Upstream("fail", FALSE, Payload("unparsable", Undefined))

PipelineUpstreams ==
    { NoUpstream,
      Upstream("ok", FALSE, Payload("object", Undefined)) }
    \cup {Upstream("ok", TRUE, p) : p \in PipelinePayloads}

ZipcodeValues == {<<>>, Str400001}

CountryCodeValues == {<<>>, StrIN}

SolarCapacityValues == {<<>>, Str1000, <<"-", "3">>}

\* One invocation of getSolarData.  pc: the await it is suspended at;
\* coords: the resolver's result while the proxy request is pending.
\* geoReqs / proxyReqs: requests issued so far; outcome: how it ended.
Call(pc, cap, coords, geoReqs, proxyReqs, outcome) ==
    [pc |-> pc, solarcapacity |-> cap, coords |-> coords,
     geoReqs |-> geoReqs, proxyReqs |-> proxyReqs, outcome |-> outcome]

\* getSolarData up to its first suspension: setLoading(true), setError(''),
\* and the geocoder request of getLatitudeLongitude.
StartCall(solarcapacity) ==
    /\ Len(calls) < MaxCalls
    /\ loading' = TRUE
    /\ error' = ""
    /\ calls' = Append(calls, Call("geocode", solarcapacity, NoCoords, 1, 0, "pending"))

\* useEffect(() => { if (!hasFetched) { getSolarData('400001','IN',1000); setHasFetched(true) } })
MountEffect ==
    /\ ~hasFetched
    /\ StartCall(Int2Num(1000))
    /\ hasFetched' = TRUE
    /\ UNCHANGED <<component, apiKey, solarData, zipcode, countryCode,
                   solarCapacity, rejected, lastCause, probe>>

\* Variant: PostcodeSolarData renders its form unconditionally, like SolarData.
FormRendered_Always == TRUE

\* The form is part of what the component renders.
FormRendered == component = "SolarData" \/ (~loading /\ error = "")

SetZipcode ==
    /\ hasFetched /\ FormRendered
    /\ \E v \in ZipcodeValues : v # zipcode /\ zipcode' = v
    /\ UNCHANGED <<component, apiKey, solarData, loading, error, countryCode,
                   solarCapacity, hasFetched, calls, rejected, lastCause, probe>>

SetCountryCode ==
    /\ hasFetched /\ FormRendered
    /\ \E v \in CountryCodeValues : v # countryCode /\ countryCode' = v
    /\ UNCHANGED <<component, apiKey, solarData, loading, error, zipcode,
                   solarCapacity, hasFetched, calls, rejected, lastCause, probe>>

SetSolarCapacity ==
    /\ hasFetched /\ FormRendered
    /\ \E v \in SolarCapacityValues : v # solarCapacity /\ solarCapacity' = v
    /\ UNCHANGED <<component, apiKey, solarData, loading, error, zipcode,
                   countryCode, hasFetched, calls, rejected, lastCause, probe>>

\* Variant: the three fields are not tested before the submission.
Truthy_Always(str) == TRUE

\* A JavaScript string is truthy iff it is not empty.
Truthy(str) == str # <<>>

HandleSubmitValid ==
    /\ hasFetched /\ FormRendered
    /\ Truthy(zipcode) /\ Truthy(countryCode) /\ Truthy(solarCapacity)
    /\ StartCall(parseFloat(solarCapacity))
    /\ UNCHANGED <<component, apiKey, solarData, zipcode, countryCode,
                   solarCapacity, hasFetched, rejected, lastCause, probe>>

HandleSubmitEmpty ==
    /\ hasFetched /\ FormRendered
    /\ ~(Truthy(zipcode) /\ Truthy(countryCode) /\ Truthy(solarCapacity))
    /\ error' = MsgFillIn
    /\ UNCHANGED <<component, apiKey, solarData, loading, zipcode, countryCode,
                   solarCapacity, hasFetched, calls, rejected, lastCause, probe>>

handleSubmit == HandleSubmitValid \/ HandleSubmitEmpty

\* What the component renders.  SolarData: the error box when `error` is not
\* empty, the plots and tables when `solarData && !loading`.
\* PostcodeSolarData: the loading view alone while loading, else the error
\* box alone when `error` is not empty, else the form and, when
\* `solarData.length > 0`, the table.
ErrorShownSolarData == error # ""

ErrorShownPostcode == ~loading /\ error # ""

ErrorShown ==
    IF component = "SolarData" THEN ErrorShownSolarData ELSE ErrorShownPostcode

YieldRenderedSolarData == ~solarData.isNull /\ ~loading

YieldRenderedPostcode == ~loading /\ error = "" /\ Len(solarData.daily) > 0

YieldRendered ==
    IF component = "SolarData" THEN YieldRenderedSolarData ELSE YieldRenderedPostcode

\* The outcome of the try block of getSolarData from a given point on:
\* kind "return" (an early return after setError), "set" (setSolarData was
\* reached), "throw" (an exception reached the catch clause) or "await"
\* (suspended at the proxy request).
Step(kind, err, data, coords) ==
    [kind |-> kind, err |-> err, data |-> data, coords |-> coords]

\* Variant: the `if (!coords)` check is missing.
AfterGeocode_NoNullCheck(resp) ==
    LET r == getLatitudeLongitude(resp)
    IN  IF r.exc THEN Step("throw", "", NoData, NoCoords)
        ELSE Step("await", "", NoData, r.ret)

\* From the settling of the geocoder request to the proxy request.
AfterGeocode(resp) ==
    LET r == getLatitudeLongitude(resp)
    IN  IF r.exc THEN Step("throw", "", NoData, NoCoords)
        ELSE IF r.ret.isNull THEN Step("return", MsgGeneric, NoData, NoCoords)
        ELSE Step("await", "", NoData, r.ret)

\* From the settling of the proxy request to setSolarData.  net: whether
\* fetch('/api/NREL') resolved; res: the handler's response.
AfterProxy(c, net, res, solarcapacity) ==
    IF net = "fail" \/ res.escaped THEN Step("throw", "", NoData, NoCoords)
    ELSE IF ~ResponseOk(res.status) THEN Step("return", MsgGeneric, NoData, NoCoords)
    ELSE LET t == Transform(c, res.data, solarcapacity)
         IN  IF t.exc THEN Step("throw", "", NoData, NoCoords)
             ELSE Step("set", "", t.ret, NoCoords)

\* Variant: try / finally without the catch clause.
CatchFinally_NoCatch(st, err) ==
    [error   |-> IF st.kind = "return" THEN st.err ELSE err,
     loading |-> FALSE,
     rejects |-> st.kind = "throw"]

\* Variant: setLoading(false) is the last statement of the try block and of
\* the catch clause instead of a finally clause, so an early return skips it.
CatchFinally_ReturnSkipsFinally(st, err) ==
    [error   |-> CASE st.kind = "throw"  -> MsgGeneric
                   [] st.kind = "return" -> st.err
                   [] OTHER              -> err,
     loading |-> IF st.kind = "return" THEN loading ELSE FALSE,
     rejects |-> FALSE]

\* catch (err) { setError(generic) } finally { setLoading(false) }, applied
\* to the outcome st of the try block; err is the error state before.
CatchFinally(st, err) ==
    [error   |-> CASE st.kind = "throw"  -> MsgGeneric
                   [] st.kind = "return" -> st.err
                   [] OTHER              -> err,
     loading |-> FALSE,
     rejects |-> FALSE]

\* Variant: a generation token; only the invocation started last may
\* update the state.
Settle_LatestOnly(i, st, cause, outcome) ==
    LET cf == CatchFinally(st, error)
    IN  /\ calls' = [calls EXCEPT ![i] =
                       Call("done", Int2Num(0), NoCoords, @.geoReqs, @.proxyReqs,
                            outcome)]
        /\ lastCause' = cause
        /\ IF i = Len(calls)
           THEN /\ loading' = cf.loading
                /\ error' = cf.error
                /\ solarData' = IF st.kind = "set" THEN st.data ELSE solarData
                /\ rejected' = (rejected \/ cf.rejects)
           ELSE UNCHANGED <<loading, error, solarData, rejected>>

\* The invocation ends: state updates of the last statements and of the
\* catch and finally clauses.  cause: which answer was a failure ("geocode":
\* the resolver's; "transport", "status", "malformed": the proxy's; "none":
\* neither).
Settle(i, st, cause, outcome) ==
    LET cf == CatchFinally(st, error)
    IN  /\ calls' = [calls EXCEPT ![i] =
                       Call("done", Int2Num(0), NoCoords, @.geoReqs, @.proxyReqs,
                            outcome)]
        /\ lastCause' = cause
        /\ loading' = cf.loading
        /\ error' = cf.error
        /\ solarData' = IF st.kind = "set" THEN st.data ELSE solarData
        /\ rejected' = (rejected \/ cf.rejects)

\* What is wrong with the answer to the proxy request, if anything.
ProxyCause(net, res) ==
    IF net = "fail" THEN "transport"
    ELSE IF ~ResponseOk(res.status) THEN "status"
    ELSE IF res.data.body # "object" \/ ~res.data.outputs.def THEN "malformed"
    ELSE "none"

\* Variant: a failed lookup is repeated once before the invocation gives up.
GeocodeSettles_RetryOnce(i) ==
    /\ calls[i].pc = "geocode"
    /\ \E resp \in PipelineGeoResponses :
          LET st == AfterGeocode(resp)
          IN  IF st.kind = "await"
              THEN /\ calls' = [calls EXCEPT ![i] =
                                  Call("proxy", @.solarcapacity, st.coords,
                                       @.geoReqs, @.proxyReqs + 1, "pending")]
                   /\ UNCHANGED <<solarData, loading, error, rejected, lastCause>>
              ELSE IF calls[i].geoReqs < 2
              THEN /\ calls' = [calls EXCEPT ![i].geoReqs = @ + 1]
                   /\ UNCHANGED <<solarData, loading, error, rejected, lastCause>>
              ELSE Settle(i, st, "geocode",
                          IF st.kind = "throw" THEN "caught" ELSE "unresolved")
    /\ UNCHANGED <<component, apiKey, zipcode, countryCode, solarCapacity,
                   hasFetched, probe>>

GeocodeSettles(i) ==
    /\ calls[i].pc = "geocode"
    /\ \E resp \in PipelineGeoResponses :
          LET st == AfterGeocode(resp)
          IN  IF st.kind = "await"
              THEN /\ calls' = [calls EXCEPT ![i] =
                                  Call("proxy", @.solarcapacity, st.coords,
                                       @.geoReqs, @.proxyReqs + 1, "pending")]
                   /\ UNCHANGED <<solarData, loading, error, rejected, lastCause>>
              ELSE Settle(i, st, "geocode",
                          IF st.kind = "throw" THEN "caught" ELSE "unresolved")
    /\ UNCHANGED <<component, apiKey, zipcode, countryCode, solarCapacity,
                   hasFetched, probe>>

ProxySettles(i) ==
    /\ calls[i].pc = "proxy"
    /\ \E ans \in ({"fail"} \X {NoUpstream}) \cup ({"ok"} \X PipelineUpstreams) :
          LET net == ans[1]
              res == POST(RequestBody(calls[i].coords), apiKey, ans[2])
              st  == AfterProxy(component, net, res, calls[i].solarcapacity)
          IN  Settle(i, st, ProxyCause(net, res),
                     CASE st.kind = "throw"  -> "caught"
                       [] st.kind = "return" -> "not_ok"
                       [] st.kind = "set"    -> "success")
    /\ UNCHANGED <<component, apiKey, zipcode, countryCode, solarCapacity,
                   hasFetched, probe>>

Init ==
    /\ \E c \in Components, key \in BOOLEAN : InitUi(c, key)
    /\ probe = NoProbe

Next ==
    \/ MountEffect
    \/ SetZipcode
    \/ SetCountryCode
    \/ SetSolarCapacity
    \/ handleSubmit
    \/ \E i \in 1..Len(calls) : GeocodeSettles(i)
    \/ \E i \in 1..Len(calls) : ProxySettles(i)

Spec == Init /\ [][Next]_vars

\* Every network request is eventually answered or fails: a pending geocoder
\* request and a pending proxy request eventually settle.
Fairness ==
    /\ WF_vars(\E i \in 1..Len(calls) : GeocodeSettles(i))
    /\ WF_vars(\E i \in 1..Len(calls) : ProxySettles(i))

SpecLive == Init /\ [][Next]_vars /\ Fairness

(***************************************************************************)
(* Properties of the resolver (SpecResolve)                                *)
(***************************************************************************)
ResolveDone == probe.op = "resolve" /\ probe.done

\* The first result entry exists and is an object.
HasFirstEntry(resp) ==
    /\ resp.transport = "ok" /\ resp.ok /\ resp.body = "object"
    /\ resp.hasResult /\ resp.result # <<>> /\ ~resp.result[1].isNull

\* C2 (as claimed): getLatitudeLongitude returns null and does not throw when
\* the fetch fails, the status is not a success, there is no `result` member
\* or it is empty, or a coordinate string of the first entry does not parse
\* to a finite number.
C2_UnresolvedOnEveryFailure ==
    ResolveDone =>
        LET resp == probe.resp
            failure ==
                \/ resp.transport = "fail"
                \/ ~resp.ok
                \/ (resp.body = "object" /\ (~resp.hasResult \/ resp.result = <<>>))
                \/ /\ HasFirstEntry(resp)
                   /\ \/ ~isFinite(parseFloat(resp.result[1].latitude))
                      \/ ~isFinite(parseFloat(resp.result[1].longitude))
        IN  failure => (~probe.exc /\ probe.ret.isNull)

InRange(x, lo, hi) == Leq(Int2Num(lo), x) /\ Leq(x, Int2Num(hi))

\* C3 (as claimed): whenever getLatitudeLongitude returns coordinates, both
\* are finite, the latitude lies in [-90, 90] and the longitude in
\* [-180, 180].
C3_CoordinatesFiniteInRange ==
    (ResolveDone /\ ~probe.ret.isNull) =>
        /\ isFinite(probe.ret.lat) /\ isFinite(probe.ret.long)
        /\ InRange(probe.ret.lat, -90, 90)
        /\ InRange(probe.ret.long, -180, 180)

(***************************************************************************)
(* Properties of the transformer (SpecYield)                               *)
(***************************************************************************)
YieldDone == probe.op = "yield" /\ probe.done

YieldOutputs == probe.data.outputs.v

YieldAc == YieldOutputs.ac.v

\* x * capacity / 1000 as an exact rational.
Expected(x, cap) == Norm(x.num * cap.num, x.den * cap.den * ScaleDivisor)

ScaledElementwise(out, in, cap) ==
    /\ Len(out) = Len(in)
    /\ \A i \in 1..Len(in) : out[i] = Expected(in[i], cap)

\* C4: for a positive capacity every power-valued output is the upstream
\* value times capacity / 1000: the hourly series index by index (same
\* length as ac, hour = index), the three power-valued monthly series and
\* ac_annual.
C4_PowerScaledLinearly ==
    (YieldDone /\ probe.solarcapacity.num > 0) =>
        LET cap == probe.solarcapacity
            o   == YieldOutputs
        IN  /\ ~probe.exc
            /\ IF component = "SolarData"
               THEN /\ Len(probe.ret.hourly) = Len(o.ac.v)
                    /\ \A i \in 1..Len(o.ac.v) :
                          /\ probe.ret.hourly[i].hour = i - 1
                          /\ probe.ret.hourly[i].power = Expected(o.ac.v[i], cap)
                    /\ ScaledElementwise(probe.ret.monthly.ac_monthly, o.ac_monthly.v, cap)
                    /\ ScaledElementwise(probe.ret.monthly.poa_monthly, o.poa_monthly.v, cap)
                    /\ ScaledElementwise(probe.ret.monthly.dc_monthly, o.dc_monthly.v, cap)
                    /\ probe.ret.annual.ac_annual = Expected(o.ac_annual.v, cap)
               ELSE ScaledElementwise(AcPower(o.ac.v, cap), o.ac.v, cap)

C4_Witness ==
    /\ YieldDone /\ component = "SolarData" /\ ~probe.exc
    /\ probe.solarcapacity = Int2Num(5000)
    /\ Len(probe.ret.hourly) = HoursPerYear
    /\ probe.ret.hourly[HoursPerDay].power = Int2Num(5 * (HoursPerDay - 1))

\* C5: solrad_monthly, solrad_annual and capacity_factor of the output
\* are the upstream values, whatever the capacity; any two capacities give
\* the same solrad_monthly.
C5_IrradiancePassedThrough ==
    (YieldDone /\ component = "SolarData") =>
        /\ ~probe.exc
        /\ probe.ret.monthly.solrad_monthly = YieldOutputs.solrad_monthly
        /\ probe.ret.annual.solrad_annual = YieldOutputs.solrad_annual
        /\ probe.ret.annual.capacity_factor = YieldOutputs.capacity_factor
        /\ \A cs \in CapacityStrings :
              CombinedData(probe.data, parseFloat(cs)).ret.monthly.solrad_monthly
                 = probe.ret.monthly.solrad_monthly

C5_Witness ==
    /\ YieldDone /\ component = "SolarData" /\ ~probe.exc
    /\ probe.solarcapacity = Int2Num(5000)
    /\ probe.ret.monthly.solrad_monthly = Def(MonthSeries(7))
    /\ probe.ret.monthly.ac_monthly # MonthSeries(3)

Truncated(data, n) ==
    [data EXCEPT !.outputs.v.ac.v = SubSeq(@, 1, Min(n, Len(@)))]

\* C6: with at least 8760 hourly values the daily series has exactly 365
\* entries, numbered 1..365 in order, and is the series obtained from the
\* first 8760 values alone.
C6_DailySeriesHas365Entries ==
    (YieldDone /\ component = "PostcodeSolarData" /\ Len(YieldAc) >= HoursPerYear) =>
        /\ ~probe.exc
        /\ Len(probe.ret.daily) = 365
        /\ \A d \in 1..365 : probe.ret.daily[d].day = d
        /\ probe.ret.daily
             = DailyData(Truncated(probe.data, HoursPerYear), probe.solarcapacity).ret.daily

C6_Witness ==
    /\ YieldDone /\ component = "PostcodeSolarData" /\ ~probe.exc
    /\ Len(YieldAc) > HoursPerYear
    /\ YieldAc[HoursPerYear + 1] = Int2Num(7)
    /\ Len(probe.ret.daily) = 365
    /\ probe.ret.daily[365].day = 365

\* Sum of the scaled values at positions lo..hi (1-based) of the series.
RECURSIVE SumScaled(_, _, _, _)
SumScaled(ac, cap, lo, hi) ==
    IF lo > hi THEN Int2Num(0)
    ELSE Add(Expected(ac[lo], cap), SumScaled(ac, cap, lo + 1, hi))

\* C7: for a series of 8760 values, entry d+1 holds the arithmetic mean of
\* the 24 scaled values at indices d*24 .. d*24+23; a constant series of 2
\* with capacity 1000 gives 2 for every day.
C7_DailyAverageIsWindowMean ==
    (YieldDone /\ component = "PostcodeSolarData" /\ Len(YieldAc) = HoursPerYear) =>
        /\ ~probe.exc
        /\ \A d \in 0..364 :
              /\ probe.ret.daily[d + 1].day = d + 1
              /\ probe.ret.daily[d + 1].avgPower
                   = Div(SumScaled(YieldAc, probe.solarcapacity, d * 24 + 1, d * 24 + 24),
                         Int2Num(24))
        /\ ((\A i \in 1..Len(YieldAc) : YieldAc[i] = Int2Num(2))
              /\ probe.solarcapacity = Int2Num(1000))
           => \A d \in 1..365 : probe.ret.daily[d].avgPower = Int2Num(2)

C7_Witness ==
    /\ YieldDone /\ component = "PostcodeSolarData" /\ ~probe.exc
    /\ Len(YieldAc) = HoursPerYear
    /\ YieldAc[2] # YieldAc[1]
    /\ probe.solarcapacity = Int2Num(5000)
    /\ probe.ret.daily[1].avgPower # probe.ret.daily[2].avgPower

\* C8: with fewer than 8760 hourly values nothing is thrown, and each of the
\* 365 entries holds the mean of the values of its window that exist (0/0,
\* that is NaN, for a window with no value at all).
C8_ShortSeriesAveragesWhatIsPresent ==
    (YieldDone /\ component = "PostcodeSolarData" /\ Len(YieldAc) < HoursPerYear) =>
        /\ ~probe.exc
        /\ Len(probe.ret.daily) = 365
        /\ \A d \in 0..364 :
              LET lo == d * 24 + 1
                  hi == Min(d * 24 + 24, Len(YieldAc))
                  n  == IF hi >= lo THEN hi - lo + 1 ELSE 0
              IN  probe.ret.daily[d + 1].avgPower
                    = IF n = 0 THEN NaN
                      ELSE Div(SumScaled(YieldAc, probe.solarcapacity, lo, hi), Int2Num(n))

C8_Witness ==
    /\ YieldDone /\ component = "PostcodeSolarData" /\ ~probe.exc
    /\ Len(YieldAc) = HoursPerYear - 1
    /\ probe.solarcapacity = Int2Num(5000)
    /\ isFinite(probe.ret.daily[365].avgPower)
    /\ probe.ret.daily[365].avgPower # Int2Num(0)

(***************************************************************************)
(* Properties of the route handler (SpecProxy)                             *)
(***************************************************************************)
PostDone == probe.op = "post" /\ probe.done

IsRelay(res, up) == res.status = 200 /\ res.kind = "relay" /\ res.data = up.data

IsError500(res) == res.status = 500 /\ res.kind = "error" /\ res.error # ""

CallIds == 1..Len(calls)

\* C1: in every invocation of getSolarData the proxy request is issued only
\* once the geocoder request has resolved with coordinates; an invocation
\* whose resolver returned null sets the generic message and never issues
\* the proxy request.
C1_ProxyOnlyAfterCoordinates ==
    /\ [](\A i \in CallIds :
            /\ calls[i].pc = "geocode" => calls[i].proxyReqs = 0
            /\ calls[i].pc = "proxy" => (calls[i].proxyReqs = 1 /\ ~calls[i].coords.isNull)
            /\ calls[i].outcome = "unresolved" => calls[i].proxyReqs = 0)
    /\ [][\A i \in CallIds :
            /\ calls'[i].proxyReqs > calls[i].proxyReqs
                  => (calls[i].pc = "geocode" /\ ~calls'[i].coords.isNull)
            /\ (calls[i].pc = "geocode" /\ calls'[i].outcome = "unresolved")
                  => (error' = MsgGeneric /\ calls'[i].proxyReqs = 0)]_vars

C1_Witness ==
    \E i \in CallIds :
        /\ calls[i].outcome = "unresolved"
        /\ calls[i].geoReqs = 1
        /\ calls[i].proxyReqs = 0
        /\ error = MsgGeneric

InFlight(i) == calls[i].pc # "done"

FailureOutcomes == {"unresolved", "not_ok", "caught"}

\* C11: nothing is retried.  An invocation of getSolarData issues exactly one
\* geocoder request and at most one proxy request, the route handler sends at
\* most one request upstream, and the settling of a request either moves the
\* invocation on (geocoder request resolved with coordinates) or ends it at
\* once: after a failed answer the invocation is over with a failure outcome
\* and no request has been added.
C11_NothingRetried ==
    /\ [](\A i \in CallIds :
            /\ calls[i].geoReqs = 1
            /\ calls[i].proxyReqs <= 1
            /\ InFlight(i) <=> calls[i].outcome = "pending"
            /\ calls[i].pc = "proxy"
                  => \A up \in PipelineUpstreams :
                        POST(RequestBody(calls[i].coords), apiKey, up).fetches <= 1)
    /\ [][\A i \in CallIds :
            calls'[i] # calls[i] =>
                /\ calls'[i].geoReqs = calls[i].geoReqs
                /\ \/ /\ calls[i].pc = "geocode" /\ calls'[i].pc = "proxy"
                      /\ ~calls'[i].coords.isNull
                      /\ calls'[i].proxyReqs = calls[i].proxyReqs + 1
                   \/ /\ calls'[i].pc = "done"
                      /\ calls'[i].proxyReqs = calls[i].proxyReqs
                      /\ lastCause' # "none" => calls'[i].outcome \in FailureOutcomes]_vars

C11_Witness ==
    \E i \in CallIds :
        /\ calls[i].pc = "done"
        /\ calls[i].outcome = "not_ok"
        /\ lastCause = "status"
        /\ calls[i].geoReqs = 1
        /\ calls[i].proxyReqs = 1
        /\ error = MsgGeneric

\* C12 (as claimed): when the proxy answers an invocation with a non-success
\* status, then at the end of that invocation the generic message is shown
\* and no yield data is rendered, whatever invocations came before.
C12_ProxyErrorShowsNoYield ==
    [][\A i \in CallIds :
         (InFlight(i) /\ calls'[i].outcome = "not_ok")
            => (error' = MsgGeneric /\ ErrorShown' /\ ~YieldRendered')]_vars

\* The results an invocation with the given capacity can store.
Storable(cap) ==
    {Transform(component, p, cap).ret :
        p \in {q \in PipelinePayloads : ~Transform(component, q, cap).exc}}

\* C13: in SolarData the form stays enabled while requests are pending, every
\* pending invocation may be the next to settle whatever the state of the
\* others, and a settling invocation writes its result or its error without
\* regard to invocations started after it: the one that settles last decides
\* the final state, be it the earlier or the later one.
C13_LastToSettleWins ==
    /\ [](component = "SolarData" =>
            /\ FormRendered
            /\ \A i \in CallIds :
                  InFlight(i) => ENABLED (GeocodeSettles(i) \/ ProxySettles(i)))
    /\ [][\A i \in CallIds :
            (component = "SolarData" /\ InFlight(i) /\ ~InFlight(i)') =>
                /\ loading' = FALSE
                /\ IF calls'[i].outcome = "success"
                   THEN /\ solarData' \in Storable(calls[i].solarcapacity)
                        /\ error' = error
                   ELSE /\ solarData' = solarData
                        /\ error' = MsgGeneric]_vars

\* Both invocations are over; the earlier one failed on the proxy's status,
\* the later one succeeded, and the failure was the last thing to happen.
C13_Witness ==
    /\ component = "SolarData"
    /\ Len(calls) = 2
    /\ calls[1].outcome = "not_ok"
    /\ calls[2].outcome = "success"
    /\ lastCause = "status"
    /\ error = MsgGeneric
    /\ ~loading
    /\ ~solarData.isNull

(***************************************************************************)
(* Properties of the component when every request settles (SpecLive)       *)
(***************************************************************************)
NoneInFlight == \A i \in CallIds : ~InFlight(i)

\* C14: every invocation of getSolarData sets loading to true when it starts
\* and to false when it ends, on every exit path (success, unresolved
\* location, non-success status of the proxy, caught exception); whenever no
\* invocation is in flight loading is false, and if every request settles a
\* state with an invocation in flight leads to one with none in flight and
\* loading false.
C14_LoadingClearedOnEveryExit ==
    /\ [](NoneInFlight => ~loading)
    /\ [][Len(calls') > Len(calls) => (loading' /\ calls'[Len(calls')].pc # "done")]_vars
    /\ [][\A i \in CallIds :
            (InFlight(i) /\ ~InFlight(i)')
               => (~loading' /\ calls'[i].outcome \in FailureOutcomes \cup {"success"})]_vars
    /\ (~NoneInFlight) ~> (NoneInFlight /\ ~loading)

C14_Witness ==
    /\ hasFetched
    /\ Len(calls) = 2
    /\ NoneInFlight
    /\ calls[1].outcome = "unresolved"
    /\ calls[2].outcome = "caught"
    /\ lastCause = "transport"
    /\ ~loading

\* C15 (as claimed): in SolarData, in every reachable state in which an
\* invocation is in flight, loading is true, so the loading indicator is
\* shown and the result view is hidden, also when invocations overlap.
C15_LoadingWhileInFlight ==
    (component = "SolarData" /\ ~NoneInFlight) => (loading /\ ~YieldRendered)

\* A step taken through the form: a field is edited or the form is submitted.
FormUsed ==
    \/ zipcode' # zipcode
    \/ countryCode' # countryCode
    \/ solarCapacity' # solarCapacity
    \/ (hasFetched /\ Len(calls') > Len(calls))
    \/ (error' = MsgFillIn /\ error # MsgFillIn)

\* C16: in PostcodeSolarData the form is rendered only while loading is false
\* and error is empty, and the form is the only way to start an invocation
\* after the mount fetch; so at most one invocation is in flight at any
\* time, and once error is not empty no invocation starts any more and error
\* keeps its value for good.
C16_FormGatedNoOverlap ==
    /\ [](component = "PostcodeSolarData" =>
            /\ FormRendered <=> (~loading /\ error = "")
            /\ Cardinality({i \in CallIds : InFlight(i)}) <= 1
            /\ ~NoneInFlight => loading
            /\ error # "" => NoneInFlight)
    /\ [][(component = "PostcodeSolarData" /\ FormUsed)
             => (~loading /\ error = "")]_vars
    /\ [][(component = "PostcodeSolarData" /\ error # "")
             => (error' = error /\ calls' = calls /\ ~loading')]_vars

\* The mount fetch failed; the fields are filled in and a further invocation
\* would fit the bound, but the form is gone.
C16_Witness ==
    /\ component = "PostcodeSolarData"
    /\ Len(calls) = 1
    /\ Len(calls) < MaxCalls
    /\ calls[1].outcome = "unresolved"
    /\ error = MsgGeneric
    /\ ~loading
    /\ ~FormRendered
    /\ zipcode # <<>> /\ countryCode # <<>> /\ solarCapacity # <<>>
    /\ ~ENABLED handleSubmit

AllFilledIn == zipcode # <<>> /\ countryCode # <<>> /\ solarCapacity # <<>>

GoodPayload == Payload("object", Def(FullOutputs(Series("ramp", MaxSeriesLen))))

\* The capacity reaches the result of component c through the linear scale
\* alone.
ScaledBy(c, ret, cap) ==
    LET ac == FullOutputs(Series("ramp", MaxSeriesLen)).ac.v
    IN  IF c = "SolarData"
        THEN /\ \A i \in 1..Len(ac) : ret.hourly[i].power = Expected(ac[i], cap)
             /\ ret.annual.ac_annual = Expected(Int2Num(1500), cap)
        ELSE ret.daily[1].avgPower
               = Div(SumScaled(ac, cap, 1, Len(ac)), Int2Num(Len(ac)))

\* Every capacity string, "0" and "-3" included, goes through the transformer
\* of either component without an exception.
CapacityPassesThrough ==
    \A c \in Components, cs \in CapacityStrings :
        LET t == Transform(c, GoodPayload, parseFloat(cs))
        IN  ~t.exc /\ ScaledBy(c, t.ret, parseFloat(cs))

\* C17: handleSubmit starts an invocation only when the three fields are
\* non-empty strings, with parseFloat of the capacity field as the capacity;
\* with an empty field it sets the error to the fill-in message, issues no
\* request and leaves loading and the stored result alone.  The value of the
\* capacity is not tested: a submission with a zero or negative capacity is
\* accepted like any other and the capacity goes through the linear scale
\* without an error.
C17_SubmitNeedsAllFields ==
    /\ [](/\ (hasFetched /\ FormRendered /\ AllFilledIn /\ Len(calls) < MaxCalls)
                => ENABLED HandleSubmitValid
          /\ CapacityPassesThrough)
    /\ [][(hasFetched /\ Len(calls') > Len(calls))
             => /\ AllFilledIn
                /\ calls'[Len(calls')].solarcapacity = parseFloat(solarCapacity)
                /\ calls'[Len(calls')].geoReqs = 1]_vars
    /\ [][(handleSubmit /\ ~AllFilledIn)
             => /\ error' = MsgFillIn
                /\ UNCHANGED <<calls, loading, solarData>>]_vars
    /\ [][\A i \in CallIds :
            (InFlight(i) /\ calls'[i].outcome = "success")
               => ScaledBy(component, solarData', calls[i].solarcapacity)]_vars

\* A submission with a capacity that is not positive has succeeded and its
\* scaled result is stored.
C17_Witness ==
    /\ component = "SolarData"
    /\ Len(calls) = 2
    /\ calls[2].outcome = "success"
    /\ lastCause = "none"
    /\ error = ""
    /\ ~solarData.isNull
    /\ solarData.annual.ac_annual.num <= 0
    /\ ScaledBy(component, solarData, parseFloat(solarCapacity))
    /\ parseFloat(solarCapacity).num <= 0

====
